---- MODULE Spec2Model ----
(***************************************************************************)
(* Continuation driver of the powdr RISC-V pipeline                        *)
(* (riscv/src/continuations.rs): rust_continuations_dry_run, which cuts a  *)
(* full execution into chunks and emits one bootloader input per chunk,    *)
(* and rust_continuations, which runs a callback on one pipeline per       *)
(* chunk.                                                                  *)
(*                                                                         *)
(* Indices are 0-based as in the source; At(s, i) reads s[i] of a Rust     *)
(* vector held as a TLA+ sequence.  Field elements are naturals.           *)
(*                                                                         *)
(* The executor, the Merkle tree and the bootloader constants live outside *)
(* the two source files; they are modelled from the specification (a       *)
(* deterministic machine, a collision-free hash, a reduced register list). *)
(***************************************************************************)
EXTENDS Naturals, Integers, Sequences, FiniteSets, TLC

\* ------------------------------------------------------------------ bounds
\* Largest number of rows a program executes after the bootloader.
MaxSteps == 5
\* Largest number of entries of the memory-access log.
MaxLogLen == 2
\* The driver loop is cut after this many chunks (it need not terminate).
MaxChunks == 3

\* --------------------------------------------------------------- utilities
At(s, i) == s[i + 1]

Last(s) == s[Len(s)]

Range(s) == {s[i] : i \in 1..Len(s)}

Min(a, b) == IF a <= b THEN a ELSE b

RECURSIVE Pow2(_)
Pow2(n) == IF n = 0 THEN 1 ELSE 2 * Pow2(n - 1)

RECURSIVE Flatten(_)
Flatten(ss) == IF ss = <<>> THEN <<>> ELSE Head(ss) \o Flatten(Tail(ss))

\* Option<T>: None, or Some(x) with value Unwrap.
None == <<>>

Some(x) == <<x>>

Unwrap(o) == o[1]

\* ------------------------------------------- bootloader constants (bootloader.rs)
REGISTER_NAMES == <<"main.x1", "main.pc">>

PC_INDEX == Len(REGISTER_NAMES) - 1

DEFAULT_PC == 3

PAGE_SIZE_BYTES_LOG == 10

BOOTLOADER_SPECIFIC_INSTRUCTION_NAMES ==
    <<"load_bootloader_input", "jump_to_bootloader_input">>

default_register_values ==
    [i \in 1..Len(REGISTER_NAMES) |-> IF i - 1 = PC_INDEX THEN DEFAULT_PC ELSE 0]

\* ------------------------------------------------ Merkle tree (memory_merkle_tree.rs)
\* Depth of the tree: it commits to 2^MerkleDepth pages.
MerkleDepth == 1
\* Words of a page the model keeps (word w of a page is at byte offset 4 * w).
PageWords == 2

Pages == 0..(Pow2(MerkleDepth) - 1)

ZeroPage == [w \in 1..PageWords |-> 0]

Addresses == {p * Pow2(PAGE_SIZE_BYTES_LOG) + 4 * w : p \in Pages, w \in 0..(PageWords - 1)}

\* An injective pairing stands for the compression function.
Pair(l, r) == ((l + r) * (l + r + 1)) \div 2 + r

RECURSIVE LeafHash(_)
LeafHash(page) ==
    IF page = <<>> THEN 0 ELSE Pair(Head(page), LeafHash(Tail(page)))

RECURSIVE NodeAt(_, _, _)
NodeAt(tree, level, index) ==
    IF level = 0 THEN LeafHash(tree[index])
    ELSE Pair(NodeAt(tree, level - 1, 2 * index), NodeAt(tree, level - 1, 2 * index + 1))

\* A hash is a tuple of field elements.
Digest(h) == <<h \div 2, h % 2>>

MerkleTree_new == [p \in Pages |-> ZeroPage]

root_hash(tree) == Digest(NodeAt(tree, MerkleDepth, 0))

Sibling(i) == IF i % 2 = 0 THEN i + 1 ELSE i - 1

\* get(page_index) = (page, proof): the proof lists the sibling hashes from the leaf up.
MerkleTree_get(tree, page_index) ==
    [page  |-> tree[page_index],
     proof |-> [l \in 1..MerkleDepth |->
                   Digest(NodeAt(tree, l - 1, Sibling(page_index \div Pow2(l - 1))))]]

\* update: a map address -> value, applied word by word.
MerkleTree_update(tree, upd) ==
    [p \in Pages |->
        [w \in 1..PageWords |->
            LET a == p * Pow2(PAGE_SIZE_BYTES_LOG) + 4 * (w - 1)
            IN  IF a \in DOMAIN upd THEN upd[a] ELSE tree[p][w]]]

default_input(pages) ==
    default_register_values \o root_hash(MerkleTree_new) \o <<Len(pages)>>

\* ----------------------------------------------------- executor (riscv_executor)
\* Rows the bootloader runs before it jumps to the program counter of its input.
BootBase == 1
BootPerPage == 1

BootRows(n) == BootBase + n * BootPerPage

\* Column of each register in a row of an ExecutionTrace.
reg_map == [x1 |-> 1, pc |-> 2]

\* The bootloader's rows: its program counters lie below DEFAULT_PC.
BootRow(r) == <<0, r % DEFAULT_PC>>

\* One step of the program: x1 grows by the public input, pc by one.
NextRow(row, inputs) == <<(row[1] + inputs[1]) % 3, row[2] + 1>>

\* The program returns in the row of its last step.
Halted(program, row) == row[2] >= DEFAULT_PC + program.steps - 1

RECURSIVE RealRows(_, _, _, _)
RealRows(program, inputs, row, budget) ==
    IF budget = 0 \/ program.steps = 0 THEN <<>>
    ELSE IF Halted(program, row) THEN <<row>>
    ELSE <<row>> \o RealRows(program, inputs, NextRow(row, inputs), budget - 1)

\* Value a memory access of full-trace row idx leaves in its word.
WriteVal(idx) == 1 + (idx % 2)

\* execute_ast(program, inputs, bootloader_inputs, max_rows, Trace):
\* (ExecutionTrace, memory snapshot update).
execute_ast(program, inputs, bootloader_inputs, max_rows) ==
    LET nregs == Len(REGISTER_NAMES)
        n     == At(bootloader_inputs, nregs + Len(Digest(0)))
        boot  == [r \in 1..Min(BootRows(n), max_rows) |-> BootRow(r - 1)]
        regs  == SubSeq(bootloader_inputs, 1, nregs)
        real  == RealRows(program, inputs, regs, max_rows - Len(boot))
        \* full-trace rows of the steps this run executes
        first == BootRows(0) + (regs[2] - DEFAULT_PC)
        done  == {e \in 1..Len(program.mem) :
                     /\ program.mem[e].idx >= first
                     /\ program.mem[e].idx < first + Len(real)}
        addrs == {program.mem[e].address : e \in done}
        lastw(a) == CHOOSE e \in done :
                       /\ program.mem[e].address = a
                       /\ \A f \in done : program.mem[f].address = a => f <= e
    IN  [trace  |-> [reg_map |-> reg_map, rows |-> boot \o real, mem |-> program.mem],
         update |-> [a \in addrs |-> WriteVal(program.mem[lastw(a)].idx)]]

\* ------------------------------------------------------------ transposed_trace
\* The orders in which a HashMap may iterate over its keys.
IterationOrders(keys) ==
    {o \in [1..Cardinality(keys) -> keys] : \A i, j \in DOMAIN o : o[i] = o[j] => i = j}

\* Lines 25-30: for (reg_name, &index) in reg_map.iter(), in the map's order,
\* reg_values.entry(reg_name).or_default().push(row[index]).
RECURSIVE push_row(_, _, _, _)
push_row(reg_values, row, map, order) ==
    IF order = <<>> THEN reg_values
    ELSE LET reg_name == Head(order)
             column   == IF reg_name \in DOMAIN reg_values
                         THEN reg_values[reg_name] ELSE <<>>
         IN  push_row((reg_name :> Append(column, row[map[reg_name]])) @@ reg_values,
                      row, map, Tail(order))

\* Lines 24-31: the rows in order.
RECURSIVE push_rows(_, _, _, _)
push_rows(reg_values, rows, map, order) ==
    IF rows = <<>> THEN reg_values
    ELSE push_rows(push_row(reg_values, Head(rows), map, order), Tail(rows), map, order)

\* Each register's column is the one at its position in the iteration, not the one
\* reg_map gives it.
transposed_trace_by_position(trace, order) ==
    [q \in {"main." \o n : n \in DOMAIN trace.reg_map} |->
        LET k == CHOOSE j \in 1..Len(order) : "main." \o order[j] = q
        IN  [i \in 1..Len(trace.rows) |-> trace.rows[i][k]]]

\* Lines 21-37; order is the iteration order of trace.reg_map.
transposed_trace(trace, order) ==
    LET reg_values == push_rows(<<>>, trace.rows, trace.reg_map, order)
    IN  [q \in {"main." \o n : n \in DOMAIN reg_values} |->
            reg_values[CHOOSE n \in DOMAIN reg_values : "main." \o n = q]]

\* ------------------------------------------------------------------- inputs
Degrees == {4, 8}

\* The Main machine as compiled with the bootloader.
MainRegisters ==
    <<[name |-> "pc", ty |-> "Pc"], [name |-> "x0", ty |-> "Write"],
      [name |-> "x1", ty |-> "Write"], [name |-> "X", ty |-> "Assignment"]>>

MainInstructions ==
    <<"mload", "load_bootloader_input", "jump_to_bootloader_input">>

\* Machines that differ from it: an instruction or a register less, a register more,
\* a register of another kind.
OtherInstructions ==
    {<<"mload", "load_bootloader_input">>, <<"mload", "jump_to_bootloader_input">>,
     <<>>}

OtherRegisters ==
    {SubSeq(MainRegisters, 1, 2) \o SubSeq(MainRegisters, 4, 4),
     MainRegisters \o <<[name |-> "x2", ty |-> "Write"]>>,
     <<[name |-> "pc", ty |-> "Pc"], [name |-> "x0", ty |-> "Write"],
       [name |-> "x1", ty |-> "ReadOnly"]>>,
     SubSeq(MainRegisters, 2, 4)}

\* The addresses programs access: two words of page 0 and one of page 1.
ProgramAddresses == Addresses \ {Pow2(PAGE_SIZE_BYTES_LOG) + 4}

MemEntries(len) == [idx : 0..(len - 1), address : ProgramAddresses]

\* The memory-access log of a run of len rows: sorted by idx.
MemLogs(len) ==
    UNION {{m \in [1..k -> MemEntries(len)] :
               \A i \in 1..(k - 1) : m[i].idx <= m[i + 1].idx} : k \in 0..MaxLogLen}

Program(instructions, registers, degree, steps, mem) ==
    [machines |-> <<[name |-> "Binary", degree |-> None,
                     instructions |-> <<>>, registers |-> <<>>],
                    [name |-> "Main", degree |-> Some(degree),
                     instructions |-> instructions, registers |-> registers]>>,
     steps |-> steps,
     mem |-> mem]

Programs ==
    {Program(MainInstructions, MainRegisters, d, n, m) :
        d \in Degrees, n \in 0..MaxSteps, m \in MemLogs(BootRows(0) + MaxSteps)}

WellFormed(p) ==
    \A e \in 1..Len(p.mem) : p.mem[e].idx < BootRows(0) + p.steps

MalformedPrograms ==
    {Program(i, MainRegisters, 8, 1, <<>>) : i \in OtherInstructions}
    \cup {Program(MainInstructions, r, 8, 1, <<>>) : r \in OtherRegisters}

Inputs == {<<1>>, <<2>>}

\* -------------------------------------------------------------------- state
VARIABLES
    program,                \* the analysed program (pipeline.analyzed_asm())
    inputs,                 \* the public inputs
    ctl,                    \* where rust_continuations_dry_run stands
    merkle_tree,
    all_bootloader_inputs,
    register_values,
    full_trace,
    memory_accesses,
    proven_trace,
    chunk_index,
    num_rows,
    accessed_pages,         \* of the current iteration, as the BTreeSet iterates
    bootloader_inputs,      \* of the current iteration
    chunk_trace,            \* of the current iteration
    memory_snapshot_update, \* of the current iteration
    start,                  \* of the current iteration
    executions,             \* calls of execute_ast so far
    validated,              \* one record per chunk that passed validation
    searched,               \* what the binary search returned, by key
    deviated,               \* how the executor answered, by bootloader input
    first_run,              \* the outcome of an earlier call on the same arguments
    \* rust_continuations
    rc_ctl,                 \* where rust_continuations stands
    chunk_inputs,           \* its argument bootloader_inputs
    next_chunk,             \* the index the enumerated iterator yields next
    factory_calls,          \* calls of pipeline_factory so far
    pil_evaluations,        \* calls of pil_with_evaluated_fixed_cols so far
    evaluated_pil,          \* pil_with_evaluated_fixed_cols, once computed
    calls,                  \* the callback's invocations: pipeline and result
    rc_result,              \* what rust_continuations returned
    \* Type (ast/src/analyzed/types.rs)
    ty_ctl,                 \* the method of Type that has been called, if any
    ty,                     \* self, before the call
    substitutions,          \* the argument of substitute_type_vars
    ty_name,                \* the argument of contains_type_var
    ty_out                  \* self after substitute_type_vars, or the value returned

dry_vars ==
    <<program, inputs, ctl, merkle_tree, all_bootloader_inputs, register_values,
      full_trace, memory_accesses, proven_trace, chunk_index, num_rows,
      accessed_pages, bootloader_inputs, chunk_trace, memory_snapshot_update,
      start, executions, validated, searched, deviated, first_run>>

rc_vars ==
    <<rc_ctl, chunk_inputs, next_chunk, factory_calls, pil_evaluations,
      evaluated_pil, calls, rc_result>>

ty_vars == <<ty_ctl, ty, substitutions, ty_name, ty_out>>

vars == <<dry_vars, rc_vars, ty_vars>>

\* The locals of rust_continuations_dry_run before the sanity check (lines 117-123).
DryLocals ==
    /\ merkle_tree = MerkleTree_new
    /\ all_bootloader_inputs = <<>>
    /\ register_values = default_register_values
    /\ full_trace = <<>>
    /\ memory_accesses = <<>>
    /\ proven_trace = 0
    /\ chunk_index = 0
    /\ num_rows = 0
    /\ accessed_pages = <<>>
    /\ bootloader_inputs = <<>>
    /\ chunk_trace = <<>>
    /\ memory_snapshot_update = <<>>
    /\ start = 0
    /\ executions = 0
    /\ validated = <<>>
    /\ searched = <<>>
    /\ deviated = <<>>
    /\ first_run = None

\* rust_continuations_dry_run is called (lines 112-125).
DryInit ==
    /\ program \in {p \in Programs : WellFormed(p)} \cup MalformedPrograms
    /\ inputs \in Inputs
    /\ ctl = "sanity_check"
    /\ DryLocals

\* rust_continuations_dry_run is not called.
DryIdle ==
    /\ program = Program(MainInstructions, MainRegisters, 8, 0, <<>>)
    /\ inputs = <<1>>
    /\ ctl = "idle"
    /\ DryLocals

\* rust_continuations is not called.
RcIdle ==
    /\ rc_ctl = "idle"
    /\ chunk_inputs = <<>>
    /\ next_chunk = 0
    /\ factory_calls = 0
    /\ pil_evaluations = 0
    /\ evaluated_pil = None
    /\ calls = <<>>
    /\ rc_result = None

\* No method of Type is called.
TyIdle ==
    /\ ty_ctl = "idle"
    /\ ty = <<"Int">>
    /\ substitutions = <<>>
    /\ ty_name = ""
    /\ ty_out = <<>>

Init == DryInit /\ RcIdle /\ TyIdle

\* ------------------------------------------------------------- sanity_check
get_machine(p, name) == CHOOSE m \in Range(p.machines) : m.name = name

MissingInstructions(main_machine) ==
    {i \in 1..Len(BOOTLOADER_SPECIFIC_INSTRUCTION_NAMES) :
        ~ \E j \in 1..Len(main_machine.instructions) :
            main_machine.instructions[j] = BOOTLOADER_SPECIFIC_INSTRUCTION_NAMES[i]}

\* The filter without its exception for x0.
machine_registers_with_x0(main_machine) ==
    {"main." \o r.name :
        r \in {q \in Range(main_machine.registers) : q.ty = "Pc" \/ q.ty = "Write"}}

\* Lines 97-104.
machine_registers(main_machine) ==
    {"main." \o r.name :
        r \in {q \in Range(main_machine.registers) :
                  (q.ty = "Pc" \/ q.ty = "Write") /\ q.name # "x0"}}

expected_registers == Range(REGISTER_NAMES)

\* TRUE when sanity_check returns, FALSE when it panics.
sanity_check(p) ==
    LET main_machine == get_machine(p, "Main")
    IN  /\ MissingInstructions(main_machine) = {}
        /\ machine_registers(main_machine) = expected_registers

SanityCheck ==
    /\ ctl = "sanity_check"
    /\ ctl' = IF sanity_check(program) THEN "execute_full" ELSE "panicked"
    /\ UNCHANGED <<program, inputs, merkle_tree, all_bootloader_inputs,
                   register_values, full_trace, memory_accesses, proven_trace,
                   chunk_index, num_rows, accessed_pages, bootloader_inputs,
                   chunk_trace, memory_snapshot_update, start, executions,
                   validated, searched, deviated, first_run,
                   rc_vars, ty_vars>>

\* ------------------------------------------------ the full trace (lines 128-172)
usize_MAX == 2147483647

ExecuteFull ==
    /\ ctl = "execute_full"
    /\ LET r == execute_ast(program, inputs, default_input(<<>>), usize_MAX)
       IN  /\ \E order \in IterationOrders(DOMAIN r.trace.reg_map) :
                 full_trace' = transposed_trace(r.trace, order)
           /\ memory_accesses' = r.trace.mem
    /\ executions' = executions + 1
    /\ ctl' = "first_row"
    /\ UNCHANGED <<program, inputs, merkle_tree, all_bootloader_inputs,
                   register_values, proven_trace, chunk_index, num_rows,
                   accessed_pages, bootloader_inputs, chunk_trace,
                   memory_snapshot_update, start, validated, searched, deviated,
                   first_run,
                   rc_vars, ty_vars>>

\* A search that answers row 0 when no row has the value (unwrap_or in place of
\* unwrap).
find_pc_or_zero(column, value) ==
    IF \E i \in 1..Len(column) : column[i] = value
    THEN Some((CHOOSE i \in 1..Len(column) :
                  /\ column[i] = value
                  /\ \A j \in 1..(i - 1) : column[j] # value) - 1)
    ELSE Some(0)

\* iter().enumerate().find(|(_, &pc)| pc == value): the first index, or None.
find_pc(column, value) ==
    IF \E i \in 1..Len(column) : column[i] = value
    THEN Some((CHOOSE i \in 1..Len(column) :
                  /\ column[i] = value
                  /\ \A j \in 1..(i - 1) : column[j] # value) - 1)
    ELSE None

\* machines.iter().fold(None, |acc, (_, m)| acc.or(m.degree)): the first degree.
RECURSIVE first_degree(_)
first_degree(machines) ==
    IF machines = <<>> THEN None
    ELSE IF Head(machines).degree # None THEN Head(machines).degree
    ELSE first_degree(Tail(machines))

FirstRow ==
    /\ ctl = "first_row"
    /\ LET first_real_execution_row == find_pc(full_trace["main.pc"], DEFAULT_PC)
           degree == first_degree(program.machines)
       IN  IF first_real_execution_row = None \/ degree = None
           THEN /\ ctl' = "panicked"
                /\ UNCHANGED <<proven_trace, chunk_index, num_rows>>
           ELSE /\ proven_trace' = Unwrap(first_real_execution_row)
                /\ chunk_index' = 0
                /\ num_rows' = Unwrap(degree) - 2
                /\ ctl' = "build"
    /\ UNCHANGED <<program, inputs, merkle_tree, all_bootloader_inputs,
                   register_values, full_trace, memory_accesses, accessed_pages,
                   bootloader_inputs, chunk_trace, memory_snapshot_update, start,
                   executions, validated, searched, deviated, first_run,
                   rc_vars, ty_vars>>

\* ------------------------------------------- bootloader inputs (lines 178-212)
\* slice::binary_search_by_key(&key, |a| a.idx): Ok(i) for an entry with that idx
\* (any of them when several match), else Err(insertion point); unwrap_or_else
\* keeps the index of either.
binary_search_by_key(log, key) ==
    IF \E i \in 1..Len(log) : log[i].idx = key
    THEN {i - 1 : i \in {j \in 1..Len(log) : log[j].idx = key}}
    ELSE {Cardinality({j \in 1..Len(log) : log[j].idx < key})}

\* A Vec::push: no order, no deduplication.
BTreeSet_insert_push(set, x) == Append(set, x)

\* BTreeSet::insert: the set as the sequence its iterator yields.
RECURSIVE BTreeSet_insert(_, _)
BTreeSet_insert(set, x) ==
    IF set = <<>> THEN <<x>>
    ELSE IF x = Head(set) THEN set
    ELSE IF x < Head(set) THEN <<x>> \o set
    ELSE <<Head(set)>> \o BTreeSet_insert(Tail(set), x)

page_of(address) == address \div Pow2(PAGE_SIZE_BYTES_LOG)

\* A scan that does not stop at the end of the window.
RECURSIVE scan_accesses_to_end(_, _, _, _)
scan_accesses_to_end(log, i, bound, pages) ==
    IF i >= Len(log) THEN pages
    ELSE scan_accesses_to_end(log, i + 1, bound,
                              BTreeSet_insert(pages, page_of(At(log, i).address)))

\* The loop of lines 183-191 over memory_accesses[i..], i 0-based.
RECURSIVE scan_accesses(_, _, _, _)
scan_accesses(log, i, bound, pages) ==
    IF i >= Len(log) THEN pages
    ELSE IF At(log, i).idx >= bound THEN pages
    ELSE scan_accesses(log, i + 1, bound,
                       BTreeSet_insert(pages, page_of(At(log, i).address)))

\* One page of the input: index, contents, proof (lines 202-207).
page_record(tree, page_index) ==
    LET g == MerkleTree_get(tree, page_index)
    IN  <<page_index>> \o g.page \o Flatten(g.proof)

\* Lines 198-208.
assemble(regs, tree, pages) ==
    regs \o root_hash(tree) \o <<Len(pages)>>
         \o Flatten([k \in 1..Len(pages) |-> page_record(tree, pages[k])])

\* A push that overwrites the entry of the chunk before.
pushed_replacing(list, b) ==
    IF list = <<>> THEN <<b>> ELSE [list EXCEPT ![Len(list)] = b]

\* Line 212: all_bootloader_inputs.push(bootloader_inputs.clone()).
pushed(list, b) == Append(list, b)

BuildBootloaderInputs ==
    /\ ctl = "build"
    /\ chunk_index < MaxChunks
    /\ \E start_idx \in binary_search_by_key(memory_accesses, proven_trace) :
          LET pages == scan_accesses(memory_accesses, start_idx,
                                     proven_trace + num_rows, <<>>)
              b     == assemble(register_values, merkle_tree, pages)
          IN  \* the search is a function of its arguments
              /\ proven_trace \in DOMAIN searched => start_idx = searched[proven_trace]
              /\ searched' = (proven_trace :> start_idx) @@ searched
              /\ accessed_pages' = pages
              /\ bootloader_inputs' = b
              /\ all_bootloader_inputs' = pushed(all_bootloader_inputs, b)
    /\ ctl' = "execute_chunk"
    /\ UNCHANGED <<program, inputs, merkle_tree, register_values, full_trace,
                   memory_accesses, proven_trace, chunk_index, num_rows,
                   chunk_trace, memory_snapshot_update, start, executions,
                   validated, deviated, first_run,
                   rc_vars, ty_vars>>

\* ------------------------------------------------ chunk execution (lines 215-227)
\* What the executor may hand back: the trace of the program, or that trace with
\* one cell off (the driver compares every chunk with the full trace because it
\* does not trust the two runs to agree).  A cell is the pc of the first row of
\* the program or of the row before it, where the driver looks for the start, or
\* the x1 of a row of the program; no other cell of a bootloader row is read.
Deviations(trace) ==
    LET real == {r \in 1..Len(trace.rows) : trace.rows[r][reg_map.pc] >= DEFAULT_PC}
    IN  {None} \cup {Some(d) : d \in
                        {c \in [row : 1..Len(trace.rows), col : {reg_map.x1, reg_map.pc}] :
                            IF c.col = reg_map.pc
                            THEN \E r \in real :
                                    /\ \A q \in real : r <= q
                                    /\ c.row \in {r - 1, r}
                            ELSE c.row \in real}}

Deviate(trace, dev) ==
    IF dev = None THEN trace
    ELSE [trace EXCEPT !.rows[Unwrap(dev).row][Unwrap(dev).col] = @ + 1]

\* A driver that forgets to apply the snapshot update.
updated_tree_dropped(tree, upd) == tree

\* Line 226: merkle_tree.update(memory_snapshot_update).
updated_tree(tree, upd) == MerkleTree_update(tree, upd)

ExecuteChunk ==
    /\ ctl = "execute_chunk"
    /\ LET r == execute_ast(program, inputs, bootloader_inputs, num_rows)
       IN  /\ \E dev \in Deviations(r.trace), order \in IterationOrders(DOMAIN r.trace.reg_map) :
                 \* the executor is a function of its arguments
                 /\ bootloader_inputs \in DOMAIN deviated => dev = deviated[bootloader_inputs]
                 /\ deviated' = (bootloader_inputs :> dev) @@ deviated
                 /\ chunk_trace' = transposed_trace(Deviate(r.trace, dev), order)
           /\ memory_snapshot_update' = r.update
           /\ merkle_tree' = updated_tree(merkle_tree, r.update)
    /\ executions' = executions + 1
    /\ ctl' = "validate"
    /\ UNCHANGED <<program, inputs, all_bootloader_inputs, register_values,
                   full_trace, memory_accesses, proven_trace, chunk_index,
                   num_rows, accessed_pages, bootloader_inputs, start, validated,
                   searched, first_run,
                   rc_vars, ty_vars>>

\* ------------------------------------------------------ validation (lines 230-259)
chunk_len == Len(chunk_trace["main.pc"])

full_trace_length == Len(full_trace["main.pc"])

\* A comparison that looks at the program counter only.
row_agrees_pc_only(s, i) ==
    /\ i + proven_trace < full_trace_length
    /\ At(chunk_trace["main.pc"], i + s) = At(full_trace["main.pc"], i + proven_trace)

\* Row i of the comparison: FALSE when the rows differ, or when the full trace
\* has no row i + proven_trace (the index panics).
row_agrees(s, i) ==
    /\ i + proven_trace < full_trace_length
    /\ \A k \in 1..Len(REGISTER_NAMES) :
          At(chunk_trace[REGISTER_NAMES[k]], i + s)
              = At(full_trace[REGISTER_NAMES[k]], i + proven_trace)

\* A comparison loop that stops one row early.
chunk_agrees_but_last(s) == \A i \in 0..(chunk_len - s - 2) : row_agrees(s, i)

\* The loop of lines 236-259: TRUE when it ends without a panic.
chunk_agrees(s) == \A i \in 0..(chunk_len - s - 1) : row_agrees(s, i)

ValidateChunk ==
    /\ ctl = "validate"
    /\ LET s == find_pc(chunk_trace["main.pc"], At(bootloader_inputs, PC_INDEX))
       IN  IF s = None
           THEN /\ ctl' = "panicked"
                /\ UNCHANGED <<start, validated>>
           ELSE /\ start' = Unwrap(s)
                /\ IF chunk_agrees(Unwrap(s))
                   THEN /\ ctl' = "validated"
                        /\ validated' = Append(validated,
                              [entry  |-> proven_trace,
                               pages  |-> accessed_pages,
                               trace  |-> chunk_trace,
                               start  |-> Unwrap(s),
                               update |-> memory_snapshot_update])
                   ELSE /\ ctl' = "panicked"
                        /\ UNCHANGED validated
    /\ UNCHANGED <<program, inputs, merkle_tree, all_bootloader_inputs,
                   register_values, full_trace, memory_accesses, proven_trace,
                   chunk_index, num_rows, accessed_pages, bootloader_inputs,
                   chunk_trace, memory_snapshot_update, executions, searched,
                   deviated, first_run,
                   rc_vars, ty_vars>>

\* --------------------------------------------------- end of the loop (261-279)
\* A stop test that also takes a chunk of exactly num_rows rows for the last.
is_final_le == chunk_len <= num_rows

\* Line 261: chunk_trace["main.pc"].len() < num_rows.
is_final == chunk_len < num_rows

\* The chunk is shorter than num_rows: break, and return all_bootloader_inputs.
Finish ==
    /\ ctl = "validated"
    /\ is_final
    /\ ctl' = "returned"
    /\ UNCHANGED <<program, inputs, merkle_tree, all_bootloader_inputs,
                   register_values, full_trace, memory_accesses, proven_trace,
                   chunk_index, num_rows, accessed_pages, bootloader_inputs,
                   chunk_trace, memory_snapshot_update, start, executions,
                   validated, searched, deviated, first_run,
                   rc_vars, ty_vars>>

\* An advance that counts the replayed row among the new ones.
new_rows_without_replay == num_rows - start

\* Lines 267-268: the first row of the chunk's program rows was proven already.
new_rows == num_rows - start - 1

\* Registers taken from the first row of the chunk instead of the last.
next_register_values_first ==
    [k \in 1..Len(REGISTER_NAMES) |-> Head(chunk_trace[REGISTER_NAMES[k]])]

\* Lines 272-275.
next_register_values ==
    [k \in 1..Len(REGISTER_NAMES) |-> Last(chunk_trace[REGISTER_NAMES[k]])]

Advance ==
    /\ ctl = "validated"
    /\ ~ is_final
    /\ IF new_rows < 0
       THEN /\ ctl' = "panicked"
            /\ UNCHANGED <<proven_trace, register_values, chunk_index>>
       ELSE /\ proven_trace' = proven_trace + new_rows
            /\ register_values' = next_register_values
            /\ chunk_index' = chunk_index + 1
            /\ ctl' = "build"
    /\ UNCHANGED <<program, inputs, merkle_tree, all_bootloader_inputs,
                   full_trace, memory_accesses, num_rows, accessed_pages,
                   bootloader_inputs, chunk_trace, memory_snapshot_update,
                   start, executions, validated, searched, deviated, first_run,
                   rc_vars, ty_vars>>

Next ==
    \/ SanityCheck
    \/ ExecuteFull
    \/ FirstRow
    \/ BuildBootloaderInputs
    \/ ExecuteChunk
    \/ ValidateChunk
    \/ Finish
    \/ Advance

Spec == Init /\ [][Next]_vars

\* -------------------------------------------- a second call on the same arguments
\* rust_continuations_dry_run has returned and is called again with the same
\* pipeline and inputs, by the same build and with the same executor; every local
\* starts afresh.
CallAgain ==
    /\ ctl = "returned"
    /\ first_run = None
    /\ first_run' = Some(all_bootloader_inputs)
    /\ ctl' = "sanity_check"
    /\ merkle_tree' = MerkleTree_new
    /\ all_bootloader_inputs' = <<>>
    /\ register_values' = default_register_values
    /\ full_trace' = <<>>
    /\ memory_accesses' = <<>>
    /\ proven_trace' = 0
    /\ chunk_index' = 0
    /\ num_rows' = 0
    /\ accessed_pages' = <<>>
    /\ bootloader_inputs' = <<>>
    /\ chunk_trace' = <<>>
    /\ memory_snapshot_update' = <<>>
    /\ start' = 0
    /\ executions' = 0
    /\ validated' = <<>>
    /\ UNCHANGED <<program, inputs, searched, deviated, rc_vars, ty_vars>>

NextTwice == Next \/ CallAgain

SpecTwice == Init /\ [][NextTwice]_vars

\* ======================================================= rust_continuations
\* ------------------------------------------------------ Pipeline (pipeline crate)
BaseName == "prog"

\* pipeline_factory(): a new pipeline; id tells the pipelines apart.
pipeline_factory(id) ==
    [id |-> id, name |-> BaseName, pil |-> None, witness |-> <<>>]

\* The artifact pil_with_evaluated_fixed_cols() computes.
pil_with_evaluated_fixed_cols(pipeline) == [fixed_cols_of |-> pipeline.name]

from_pil_with_evaluated_fixed_cols(pipeline, pil) == [pipeline EXCEPT !.pil = Some(pil)]

with_name(pipeline, name) == [pipeline EXCEPT !.name = name]

add_external_witness_values(pipeline, values) ==
    [pipeline EXCEPT !.witness = @ \o values]

\* ---------------------------------------------------------------- the callback
Ok == [ok |-> TRUE, err |-> ""]

Err(e) == [ok |-> FALSE, err |-> e]

CallbackResults == {Ok, Err("e1"), Err("e2")}

\* The inputs of a chunk, as the caller passes them.
ChunkVectors == {<<0>>, <<1>>, <<1, 2>>}

RcInit ==
    /\ rc_ctl = "start"
    /\ chunk_inputs \in UNION {[1..n -> ChunkVectors] : n \in 0..MaxChunks}
    /\ next_chunk = 0
    /\ factory_calls = 0
    /\ pil_evaluations = 0
    /\ evaluated_pil = None
    /\ calls = <<>>
    /\ rc_result = None

\* Lines 48-59: the pipeline is advanced once, before the chunks.
RcStart ==
    /\ rc_ctl = "start"
    /\ LET pipeline == pipeline_factory(factory_calls + 1)
       IN  evaluated_pil' = Some(pil_with_evaluated_fixed_cols(pipeline))
    /\ factory_calls' = factory_calls + 1
    /\ pil_evaluations' = pil_evaluations + 1
    /\ rc_ctl' = "chunks"
    /\ UNCHANGED <<chunk_inputs, next_chunk, calls, rc_result, dry_vars, ty_vars>>

\* A factory that hands out pipeline_factory()'s pipeline as it is, so that the
\* pipeline has to evaluate the fixed columns itself.
optimized_pipeline_factory_from_scratch(id, pil) == pipeline_factory(id)

\* Line 58: optimized_pipeline_factory().
optimized_pipeline_factory(id, pil) ==
    from_pil_with_evaluated_fixed_cols(pipeline_factory(id), pil)

\* The chunk is named as the log line counts it, from 1.
chunk_name_from_one(base, i) == base \o "_chunk_" \o ToString(i + 1)

\* Line 67: format!("{}_chunk_{}", pipeline.name(), i).
chunk_name(base, i) == base \o "_chunk_" \o ToString(i)

\* Lines 66-72: the pipeline of chunk i.
chunk_pipeline(id, pil, i, values) ==
    LET pipeline == optimized_pipeline_factory(id, pil)
        name     == chunk_name(pipeline.name, i)
    IN  add_external_witness_values(with_name(pipeline, name),
                                    <<<<"main.bootloader_input_value", values>>>>)

\* Every chunk runs, whatever the callback returns.
stops_never(result) == FALSE

\* Lines 73 and 76: an Err leaves the closure by `?` and ends the collect.
stops(result) == ~ result.ok

\* Lines 64-75: the closure on the next item of the enumerated iterator.
RcChunk ==
    /\ rc_ctl = "chunks"
    /\ next_chunk < Len(chunk_inputs)
    /\ \E result \in CallbackResults :
          LET pipeline == chunk_pipeline(factory_calls + 1, Unwrap(evaluated_pil),
                                         next_chunk, At(chunk_inputs, next_chunk))
          IN  /\ calls' = Append(calls, [pipeline |-> pipeline, result |-> result])
              /\ IF stops(result)
                 THEN /\ rc_result' = Some(result)
                      /\ rc_ctl' = "returned"
                      /\ UNCHANGED next_chunk
                 ELSE /\ next_chunk' = next_chunk + 1
                      /\ UNCHANGED <<rc_result, rc_ctl>>
    /\ factory_calls' = factory_calls + 1
    /\ UNCHANGED <<chunk_inputs, pil_evaluations, evaluated_pil, dry_vars, ty_vars>>

\* Lines 76-77: the iterator is exhausted.
RcReturn ==
    /\ rc_ctl = "chunks"
    /\ next_chunk = Len(chunk_inputs)
    /\ rc_result' = Some(Ok)
    /\ rc_ctl' = "returned"
    /\ UNCHANGED <<chunk_inputs, next_chunk, factory_calls, pil_evaluations,
                   evaluated_pil, calls, dry_vars, ty_vars>>

NextRc == RcStart \/ RcChunk \/ RcReturn

\* rust_continuations is called; rust_continuations_dry_run is not running.
InitRc == DryIdle /\ RcInit /\ TyIdle

SpecRc == InitRc /\ [][NextRc]_vars

\* ================================================ Type (ast/src/analyzed/types.rs)
\* The largest type the calls are made on, in nodes.
MaxTypeSize == 4

\* enum Type (lines 21-43).  A value is a tuple that starts with the variant's
\* name; the variants differ in length, so that two values of different variants
\* are unequal without their fields being compared.
ElementaryVariants ==
    {"Bottom", "Bool", "Int", "Fe", "String", "Col", "Expr", "Constr"}

Elementary(variant) == <<variant>>

TypeVar(n) == <<"TypeVar", n>>

\* ArrayType {base, length}: length is an Option<u64>.
Array(base, length) == <<"Array", base, length>>

\* TupleType {items}.
Tuple(items) == <<"Tuple", items, 0, 0>>

\* FunctionType {params, value}.
Function(params, value) == <<"Function", params, value, 0, 0>>

variant_of(t) == t[1]

\* Lines 46-58.
is_elementary(t) == variant_of(t) \in ElementaryVariants

\* The type variables and the array lengths the types are built from.
TypeVarNames == {"A", "B"}

ArrayLengths == {None, Some(2)}

\* The types of n nodes, and the sequences of types of m nodes in all.
RECURSIVE TypesOfSize(_), TypeSeqsOfSize(_)
TypesOfSize(n) ==
    IF n <= 0 THEN {}
    ELSE (IF n = 1 THEN {Elementary("Int")} \cup {TypeVar(v) : v \in TypeVarNames}
          ELSE {})
         \cup {Array(base, length) : base \in TypesOfSize(n - 1), length \in ArrayLengths}
         \cup {Tuple(items) : items \in TypeSeqsOfSize(n - 1)}
         \cup UNION {{Function(params, value) :
                         params \in TypeSeqsOfSize(n - 1 - k), value \in TypesOfSize(k)} :
                     k \in 1..(n - 1)}

TypeSeqsOfSize(m) ==
    IF m = 0 THEN {<<>>}
    ELSE UNION {{<<t>> \o rest : t \in TypesOfSize(k), rest \in TypeSeqsOfSize(m - k)} :
                k \in 1..m}

Types == UNION {TypesOfSize(n) : n \in 1..MaxTypeSize}

\* The maps substitute_type_vars is called with: a HashMap<String, Type> is a
\* function on its keys.
Replacements == {TypeVar("B"), TypeVar("C"), Array(TypeVar("A"), None)}

SubstitutionMaps == UNION {[keys -> Replacements] : keys \in SUBSET TypeVarNames}

\* A substitution that looks a replacement up in the map once more.
RECURSIVE substitute_type_vars_again(_, _)
substitute_type_vars_again(t, subs) ==
    CASE variant_of(t) = "TypeVar" ->
            IF t[2] \in DOMAIN subs
            THEN LET r == subs[t[2]]
                 IN  IF variant_of(r) = "TypeVar" /\ r[2] \in DOMAIN subs
                     THEN subs[r[2]] ELSE r
            ELSE t
      [] variant_of(t) = "Array" ->
            Array(substitute_type_vars_again(t[2], subs), t[3])
      [] variant_of(t) = "Tuple" ->
            Tuple([i \in 1..Len(t[2]) |-> substitute_type_vars_again(t[2][i], subs)])
      [] variant_of(t) = "Function" ->
            Function([i \in 1..Len(t[2]) |-> substitute_type_vars_again(t[2][i], subs)],
                     substitute_type_vars_again(t[3], subs))
      [] OTHER -> t

\* Lines 88-113: self after the call.
RECURSIVE substitute_type_vars(_, _)
substitute_type_vars(t, subs) ==
    CASE variant_of(t) = "TypeVar" ->
            IF t[2] \in DOMAIN subs THEN subs[t[2]] ELSE t
      [] variant_of(t) = "Array" ->
            Array(substitute_type_vars(t[2], subs), t[3])
      [] variant_of(t) = "Tuple" ->
            Tuple([i \in 1..Len(t[2]) |-> substitute_type_vars(t[2][i], subs)])
      [] variant_of(t) = "Function" ->
            Function([i \in 1..Len(t[2]) |-> substitute_type_vars(t[2][i], subs)],
                     substitute_type_vars(t[3], subs))
      [] OTHER -> t

\* A traversal that visits the value of a function before its parameters.
RECURSIVE contained_type_vars_value_first(_)
contained_type_vars_value_first(t) ==
    CASE variant_of(t) = "TypeVar" -> <<t[2]>>
      [] variant_of(t) = "Array" -> contained_type_vars_value_first(t[2])
      [] variant_of(t) = "Tuple" ->
            Flatten([i \in 1..Len(t[2]) |-> contained_type_vars_value_first(t[2][i])])
      [] variant_of(t) = "Function" ->
            contained_type_vars_value_first(t[3])
            \o Flatten([i \in 1..Len(t[2]) |-> contained_type_vars_value_first(t[2][i])])
      [] OTHER -> <<>>

\* Lines 120-140: the names the iterator yields, in order.
RECURSIVE contained_type_vars_with_repetitions(_)
contained_type_vars_with_repetitions(t) ==
    CASE variant_of(t) = "TypeVar" -> <<t[2]>>
      [] variant_of(t) = "Array" -> contained_type_vars_with_repetitions(t[2])
      [] variant_of(t) = "Tuple" ->
            Flatten([i \in 1..Len(t[2]) |-> contained_type_vars_with_repetitions(t[2][i])])
      [] variant_of(t) = "Function" ->
            Flatten([i \in 1..Len(t[2]) |-> contained_type_vars_with_repetitions(t[2][i])])
            \o contained_type_vars_with_repetitions(t[3])
      [] OTHER -> <<>>

\* Itertools::unique: the elements in order, each at its first occurrence only.
RECURSIVE unique(_)
unique(names) ==
    IF names = <<>> THEN <<>>
    ELSE LET front == unique(SubSeq(names, 1, Len(names) - 1))
         IN  IF Last(names) \in Range(front) THEN front ELSE Append(front, Last(names))

\* Lines 82-84.
contained_type_vars(t) == unique(contained_type_vars_with_repetitions(t))

\* Lines 72-74: next().is_none().
is_concrete_type(t) == contained_type_vars_with_repetitions(t) = <<>>

\* Lines 76-79: any(|n| n == name).
contains_type_var(t, name) ==
    \E i \in 1..Len(contained_type_vars_with_repetitions(t)) :
        contained_type_vars_with_repetitions(t)[i] = name

\* The names contains_type_var is asked for.
AskedNames == TypeVarNames \cup {"C"}

\* A method of Type is about to be called on a type.
TyInit ==
    /\ ty_ctl = "ready"
    /\ ty \in Types
    /\ substitutions = <<>>
    /\ ty_name = ""
    /\ ty_out = <<>>

SubstituteTypeVars ==
    /\ ty_ctl = "ready"
    /\ \E subs \in SubstitutionMaps :
          /\ substitutions' = subs
          /\ ty_out' = substitute_type_vars(ty, subs)
    /\ ty_ctl' = "substitute_type_vars"
    /\ UNCHANGED <<ty, ty_name, dry_vars, rc_vars>>

ContainedTypeVars ==
    /\ ty_ctl = "ready"
    /\ ty_out' = contained_type_vars(ty)
    /\ ty_ctl' = "contained_type_vars"
    /\ UNCHANGED <<ty, substitutions, ty_name, dry_vars, rc_vars>>

ContainedTypeVarsWithRepetitions ==
    /\ ty_ctl = "ready"
    /\ ty_out' = contained_type_vars_with_repetitions(ty)
    /\ ty_ctl' = "contained_type_vars_with_repetitions"
    /\ UNCHANGED <<ty, substitutions, ty_name, dry_vars, rc_vars>>

IsConcreteType ==
    /\ ty_ctl = "ready"
    /\ ty_out' = is_concrete_type(ty)
    /\ ty_ctl' = "is_concrete_type"
    /\ UNCHANGED <<ty, substitutions, ty_name, dry_vars, rc_vars>>

ContainsTypeVar ==
    /\ ty_ctl = "ready"
    /\ \E name \in AskedNames :
          /\ ty_name' = name
          /\ ty_out' = contains_type_var(ty, name)
    /\ ty_ctl' = "contains_type_var"
    /\ UNCHANGED <<ty, substitutions, dry_vars, rc_vars>>

NextTypes ==
    \/ SubstituteTypeVars
    \/ ContainedTypeVars
    \/ ContainedTypeVarsWithRepetitions
    \/ IsConcreteType
    \/ ContainsTypeVar

InitTypes == DryIdle /\ RcIdle /\ TyInit

SpecTypes == InitTypes /\ [][NextTypes]_vars

\* ================================================================== claims
\* Parts of an emitted bootloader input.
InputRegisters(b) == SubSeq(b, 1, Len(REGISTER_NAMES))

InputRoot(b) ==
    SubSeq(b, Len(REGISTER_NAMES) + 1, Len(REGISTER_NAMES) + Len(Digest(0)))

\* Row i (0-based) of a transposed trace, in REGISTER_NAMES order.
RowOf(trace, i) == [k \in 1..Len(REGISTER_NAMES) |-> At(trace[REGISTER_NAMES[k]], i)]

\* Rows from..to (0-based, inclusive) of a transposed trace.
RowsOf(trace, from, to) ==
    IF to < from THEN <<>> ELSE [i \in 1..(to - from + 1) |-> RowOf(trace, from + i - 1)]

TraceLen(trace) == Len(trace["main.pc"])

\* The tree after the updates of the first k validated chunks, in chunk order.
RECURSIVE TreeAfter(_)
TreeAfter(k) ==
    IF k = 0 THEN MerkleTree_new
    ELSE MerkleTree_update(TreeAfter(k - 1), validated[k].update)

\* C1. Register continuity: the register snapshot of chunk 0's input is
\* default_register_values(); that of every later chunk k is, register by register
\* in REGISTER_NAMES order, the last row of chunk k-1's trace.
C1_RegisterContinuity ==
    \A k \in 1..Len(all_bootloader_inputs) :
        InputRegisters(all_bootloader_inputs[k]) =
            IF k = 1 THEN default_register_values
            ELSE RowOf(validated[k - 1].trace, TraceLen(validated[k - 1].trace) - 1)

\* A second chunk's input was emitted, with registers that are not the defaults.
C1_Witness ==
    /\ Len(all_bootloader_inputs) >= 2
    /\ InputRegisters(all_bootloader_inputs[2]) # default_register_values
    /\ InputRegisters(all_bootloader_inputs[2])[1] # 0

\* C2. Root continuity: the root in chunk 0's input is the root of the empty tree;
\* the root in the input of chunk i+1 is the root of the tree after the
\* memory-snapshot updates of chunks 0..i, and no others, in chunk order.
C2_RootContinuity ==
    \A k \in 1..Len(all_bootloader_inputs) :
        InputRoot(all_bootloader_inputs[k]) = root_hash(TreeAfter(k - 1))

\* A third chunk's input carries a root that differs from the second's, which
\* differs from the empty tree's.
C2_Witness ==
    /\ Len(all_bootloader_inputs) >= 3
    /\ InputRoot(all_bootloader_inputs[2]) # root_hash(MerkleTree_new)
    /\ InputRoot(all_bootloader_inputs[3]) # InputRoot(all_bootloader_inputs[2])

\* The validated rows of the k-th chunk: rows start.. of its trace, without the
\* last row unless the chunk is the final one.
ValidatedRows(k) ==
    LET c == validated[k]
    IN  RowsOf(c.trace, c.start,
               IF k = Len(validated) THEN TraceLen(c.trace) - 1
               ELSE TraceLen(c.trace) - 2)

\* C3. Trace equivalence: when the driver returns, the validated rows of all
\* chunks, concatenated in chunk order, are the rows of the full trace from
\* first_real_execution_row to its last row, for every register.
C3_TraceEquivalence ==
    ctl = "returned" =>
        Flatten([k \in 1..Len(validated) |-> ValidatedRows(k)])
            = RowsOf(full_trace, validated[1].entry, full_trace_length - 1)

\* The driver returned after three chunks.
C3_Witness ==
    /\ ctl = "returned"
    /\ Len(validated) >= 3
    /\ \A k \in 1..Len(validated) : Len(ValidatedRows(k)) >= 1

\* Length of one page record of an input: index, contents, proof.
RecordLen == 1 + PageWords + MerkleDepth * Len(Digest(0))

\* Offset (0-based) of the page count n in an input.
CountAt == Len(REGISTER_NAMES) + Len(Digest(0))

\* The page indices an input carries, in order.
InputPages(b) ==
    [k \in 1..At(b, CountAt) |-> At(b, CountAt + 1 + (k - 1) * RecordLen)]

\* C4. Accessed-page coverage: when a chunk's input has been built, the page of
\* every log entry whose idx lies in [proven_trace, proven_trace + num_rows) is in
\* accessed_pages and is a page of the input.
C4_AccessedPageCoverage ==
    ctl = "execute_chunk" =>
        \A e \in 1..Len(memory_accesses) :
            (/\ memory_accesses[e].idx >= proven_trace
             /\ memory_accesses[e].idx < proven_trace + num_rows)
            => /\ page_of(memory_accesses[e].address) \in Range(accessed_pages)
               /\ page_of(memory_accesses[e].address) \in Range(InputPages(bootloader_inputs))

\* C5. For every validated chunk, accessed_pages holds the page of every access
\* of the full-trace rows the chunk reproduces, rows entry .. entry + (len - start) - 1,
\* and the window [entry, entry + num_rows) contains those rows.
C5_CoversReproducedRows ==
    \A k \in 1..Len(validated) :
        LET c == validated[k]
            rows == TraceLen(c.trace) - c.start
        IN  /\ c.entry + rows <= c.entry + num_rows
            /\ \A e \in 1..Len(memory_accesses) :
                  (/\ memory_accesses[e].idx >= c.entry
                   /\ memory_accesses[e].idx <= c.entry + rows - 1)
                  => page_of(memory_accesses[e].address) \in Range(c.pages)

\* C6. Layout of every emitted input, at its emission: the register snapshot, the
\* current root, the count n, then n page records (page index, the page's contents
\* in the tree, its proof sibling after sibling); the indices ascend strictly and
\* n is the number of distinct pages of accessed_pages.
C6_InputLayout ==
    ctl = "execute_chunk" =>
        LET b == Last(all_bootloader_inputs)
            n == At(b, CountAt)
        IN  /\ Len(b) = CountAt + 1 + n * RecordLen
            /\ InputRegisters(b) = register_values
            /\ InputRoot(b) = root_hash(merkle_tree)
            /\ n = Cardinality(Range(accessed_pages))
            /\ Range(InputPages(b)) = Range(accessed_pages)
            /\ \A j \in 1..n :
                  LET off == CountAt + 1 + (j - 1) * RecordLen
                      g   == MerkleTree_get(merkle_tree, At(b, off))
                  IN  /\ SubSeq(b, off + 2, off + 1 + PageWords) = g.page
                      /\ SubSeq(b, off + 2 + PageWords, off + RecordLen) = Flatten(g.proof)
                      /\ j > 1 => At(b, off - RecordLen) < At(b, off)

\* An input with two pages, of a tree that has been written, where the log names
\* the higher page first.
C6_Witness ==
    /\ ctl = "execute_chunk"
    /\ At(bootloader_inputs, CountAt) = 2
    /\ merkle_tree # MerkleTree_new
    /\ \E e, f \in 1..Len(memory_accesses) :
          /\ e < f
          /\ e > searched[proven_trace]
          /\ page_of(memory_accesses[e].address) > page_of(memory_accesses[f].address)
          /\ memory_accesses[f].idx < proven_trace + num_rows

RECURSIVE InsertAll(_, _)
InsertAll(pages, xs) ==
    IF xs = <<>> THEN pages ELSE InsertAll(BTreeSet_insert(pages, Head(xs)), Tail(xs))

\* The pages of the log entries the scan of this iteration inserted, in log order.
Discovered ==
    LET from == searched[proven_trace]
        upto == Cardinality({e \in 1..Len(memory_accesses) :
                                memory_accesses[e].idx < proven_trace + num_rows})
    IN  IF upto <= from THEN <<>>
        ELSE [i \in 1..(upto - from) |-> page_of(memory_accesses[from + i].address)]

\* C7. Determinism: when a call has returned, a second call on the same program
\* and inputs, by the same build and with the same executor, does not panic and
\* returns the same list of inputs; and an input does not depend on the order in
\* which the log names its pages.
C7_Determinism ==
    /\ first_run # None =>
          /\ ctl # "panicked"
          /\ ctl = "returned" => Unwrap(first_run) = all_bootloader_inputs
    /\ ctl = "execute_chunk" =>
          \A o \in IterationOrders(1..Len(Discovered)) :
              InsertAll(<<>>, [i \in 1..Len(Discovered) |-> Discovered[o[i]]])
                  = accessed_pages

\* Both calls returned, with two chunks, one of them with two pages.
C7_Witness ==
    /\ first_run # None
    /\ ctl = "returned"
    /\ Len(all_bootloader_inputs) >= 2
    /\ \E k \in 1..Len(validated) :
          /\ Len(validated[k].pages) = 2
          /\ \E e \in 1..(Len(memory_accesses) - 1) :
                /\ memory_accesses[e].idx >= validated[k].entry
                /\ page_of(memory_accesses[e].address) = 1
                /\ page_of(memory_accesses[e + 1].address) = 0

\* C10 in the claim's words: the Main machine has every bootloader instruction, and
\* its registers of kind Pc or Write other than x0, prefixed with "main.", are the
\* set REGISTER_NAMES.
HasBootloaderInstructions ==
    \A i \in 1..Len(BOOTLOADER_SPECIFIC_INSTRUCTION_NAMES) :
        BOOTLOADER_SPECIFIC_INSTRUCTION_NAMES[i]
            \in Range(get_machine(program, "Main").instructions)

HasExpectedRegisters ==
    \A n \in {"pc", "x0", "x1", "x2", "X"} :
        ("main." \o n \in Range(REGISTER_NAMES))
            <=> /\ n # "x0"
                /\ \E r \in Range(get_machine(program, "Main").registers) :
                       r.name = n /\ r.ty \in {"Pc", "Write"}

\* C10. Program sanity check: a program that lacks a bootloader instruction or whose
\* register set differs makes the driver panic before the executor has run once
\* and before any input is emitted; any other program passes the check.
C10_SanityCheck ==
    ctl # "sanity_check" =>
        IF HasBootloaderInstructions /\ HasExpectedRegisters
        THEN ctl = "execute_full" \/ executions >= 1
        ELSE ctl = "panicked" /\ executions = 0 /\ all_bootloader_inputs = <<>>

\* The check stopped a program that has every instruction and one register more.
C10_Witness ==
    /\ ctl = "panicked"
    /\ HasBootloaderInstructions
    /\ ~ HasExpectedRegisters
    /\ Len(get_machine(program, "Main").registers) > Len(MainRegisters)

\* C8. The callback runs on the chunks in ascending order from 0; after the first
\* invocation that returns an error there is no later invocation and no later
\* pipeline, and rust_continuations returns that error.
C8_FirstErrorStops ==
    /\ \A k \in 1..Len(calls) :
          /\ calls[k].pipeline.witness[1][2] = chunk_inputs[k]
          /\ calls[k].pipeline.name = BaseName \o "_chunk_" \o ToString(k - 1)
    /\ \A k \in 1..Len(calls) :
          ~ calls[k].result.ok =>
              /\ k = Len(calls)
              /\ factory_calls = k + 1
              /\ rc_ctl = "returned"
              /\ rc_result = Some(calls[k].result)

\* The second of three chunks failed.
C8_Witness ==
    /\ Len(chunk_inputs) = 3
    /\ Len(calls) = 2
    /\ calls[1].result.ok
    /\ calls[2].result = Err("e2")
    /\ rc_ctl = "returned"

\* C9. rust_continuations returns Ok exactly when the callback ran once on every
\* index and succeeded every time; the i-th invocation gets a pipeline of its own,
\* named <base>_chunk_<i>, whose only external witness column is
\* main.bootloader_input_value with the i-th inputs; no inputs, no invocation, Ok.
C9_OkIffAllSucceeded ==
    /\ rc_ctl = "returned" =>
          (rc_result = Some(Ok)
              <=> /\ Len(calls) = Len(chunk_inputs)
                  /\ \A k \in 1..Len(calls) : calls[k].result.ok)
    /\ \A k \in 1..Len(calls) :
          /\ calls[k].pipeline.name = BaseName \o "_chunk_" \o ToString(k - 1)
          /\ calls[k].pipeline.witness
                = <<<<"main.bootloader_input_value", chunk_inputs[k]>>>>
          /\ calls[k].pipeline.id # 1
          /\ \A j \in 1..Len(calls) : calls[j].pipeline.id = calls[k].pipeline.id => j = k
    /\ (rc_ctl = "returned" /\ chunk_inputs = <<>>) =>
          rc_result = Some(Ok) /\ calls = <<>>

\* Three chunks with inputs that differ, all succeeded, Ok returned.
C9_Witness ==
    /\ rc_ctl = "returned"
    /\ rc_result = Some(Ok)
    /\ Len(calls) = 3
    /\ chunk_inputs[1] # chunk_inputs[2]
    /\ chunk_inputs[2] # chunk_inputs[3]

\* The cells in which rows s.. of a chunk's trace differ from rows entry.. of the
\* full trace: pairs of a row offset and a register's place in REGISTER_NAMES.
Mismatches(trace, s, entry) ==
    {c \in (0..(TraceLen(trace) - s - 1)) \X (1..Len(REGISTER_NAMES)) :
        /\ entry + c[1] < full_trace_length
        /\ At(trace[REGISTER_NAMES[c[2]]], s + c[1])
              # At(full_trace[REGISTER_NAMES[c[2]]], entry + c[1])}

\* The driver has executed a chunk and found the row where its program starts.
ChunkCompared ==
    /\ ctl \in {"validated", "panicked", "returned"}
    /\ executions >= 2
    /\ find_pc(chunk_trace["main.pc"], At(bootloader_inputs, PC_INDEX)) # None

\* C11. Oracle divergence: a chunk one of whose compared cells differs from the
\* full trace is never accepted, and the driver panics on it: no later chunk is
\* executed, proven_trace and register_values stay as they were when the chunk's
\* input was built, and no list is returned.
C11_OracleDivergence ==
    /\ \A k \in 1..Len(validated) :
          Mismatches(validated[k].trace, validated[k].start, validated[k].entry) = {}
    /\ (ChunkCompared /\ Mismatches(chunk_trace, start, proven_trace) # {}) =>
          /\ ctl = "panicked"
          /\ executions = Len(all_bootloader_inputs) + 1
          /\ Len(validated) = Len(all_bootloader_inputs) - 1
          /\ register_values = InputRegisters(bootloader_inputs)
          /\ proven_trace =
                IF validated = <<>> THEN Unwrap(find_pc(full_trace["main.pc"], DEFAULT_PC))
                ELSE Last(validated).entry + (num_rows - Last(validated).start - 1)
    /\ ctl = "returned" => Len(validated) = Len(all_bootloader_inputs)

\* The second chunk differs from the full trace in x1, after a row that agrees.
C11_Witness ==
    /\ ctl = "panicked"
    /\ Len(all_bootloader_inputs) = 2
    /\ ChunkCompared
    /\ <<0, 1>> \notin Mismatches(chunk_trace, start, proven_trace)
    /\ <<1, 1>> \in Mismatches(chunk_trace, start, proven_trace)

\* The value proven_trace was initialised with.
InitialProvenTrace == IF validated = <<>> THEN proven_trace ELSE validated[1].entry

\* C12. When no row of the full trace has the program counter DEFAULT_PC, the
\* driver panics before it assembles an input and before it executes a chunk;
\* otherwise proven_trace starts as the index of the first row whose program
\* counter is DEFAULT_PC.
C12_FirstRealRow ==
    (executions >= 1 /\ ctl # "first_row") =>
        IF DEFAULT_PC \notin Range(full_trace["main.pc"])
        THEN /\ ctl = "panicked"
             /\ all_bootloader_inputs = <<>>
             /\ executions = 1
        ELSE /\ At(full_trace["main.pc"], InitialProvenTrace) = DEFAULT_PC
             /\ \A j \in 0..(InitialProvenTrace - 1) :
                   At(full_trace["main.pc"], j) # DEFAULT_PC

\* The full trace has rows, none of them of the program, and the driver panicked.
C12_Witness ==
    /\ ctl = "panicked"
    /\ executions = 1
    /\ full_trace_length >= 1
    /\ DEFAULT_PC \notin Range(full_trace["main.pc"])

\* The loop went on after the k-th chunk.
Continued(k) ==
    \/ k < Len(all_bootloader_inputs)
    \/ ctl = "build" /\ k <= chunk_index

\* C13. Stop condition: the driver returns only after a chunk that passed
\* validation and has fewer than num_rows rows, and then the chunk's compared rows
\* end on the last row of the full trace; the loop goes on after a chunk only if
\* the chunk has num_rows rows.
C13_StopCondition ==
    /\ ctl = "returned" =>
          /\ Len(validated) = Len(all_bootloader_inputs)
          /\ Last(validated).trace = chunk_trace
          /\ chunk_len < num_rows
          /\ proven_trace + (chunk_len - start) = full_trace_length
    /\ \A k \in 1..Len(validated) :
          Continued(k) => TraceLen(validated[k].trace) >= num_rows
    /\ \A k \in 1..Len(validated) :
          TraceLen(validated[k].trace) < num_rows =>
              ctl \in {"validated", "returned"} /\ k = Len(validated)

\* The driver returned after a chunk of exactly num_rows rows that ended on the
\* last row of the full trace, and a last chunk that replays that row only.
C13_Witness ==
    /\ ctl = "returned"
    /\ Len(validated) >= 2
    /\ chunk_len - start = 1
    /\ TraceLen(validated[Len(validated) - 1].trace) = num_rows

\* The types directly inside a type, from left to right: the base of an array, the
\* items of a tuple, the parameters of a function and then its value.
Children(t) ==
    CASE variant_of(t) = "Array" -> <<t[2]>>
      [] variant_of(t) = "Tuple" -> t[2]
      [] variant_of(t) = "Function" -> t[2] \o <<t[3]>>
      [] OTHER -> <<>>

\* The places of a type: a place is the sequence of child numbers that leads to it.
RECURSIVE Places(_)
Places(t) ==
    {<<>>} \cup UNION {{<<i>> \o p : p \in Places(Children(t)[i])} :
                       i \in 1..Len(Children(t))}

\* What a type has at a place, or Missing when it has no such place.
Missing == <<"Missing">>

RECURSIVE TypeAt(_, _)
TypeAt(t, p) ==
    IF p = <<>> THEN t
    ELSE IF Head(p) \in 1..Len(Children(t)) THEN TypeAt(Children(t)[Head(p)], Tail(p))
    ELSE Missing

\* C14. substitute_type_vars: at every place of the type, a type variable that is
\* a key of the map has become the mapped type itself (nothing is substituted
\* inside it), a type variable that is no key and an elementary type are
\* unchanged, and an array, a tuple or a function is still one, with the same
\* length, number of items or number of parameters.
C14_SubstituteTypeVars ==
    ty_ctl = "substitute_type_vars" =>
        \A p \in Places(ty) :
            LET before == TypeAt(ty, p)
                after  == TypeAt(ty_out, p)
            IN  CASE variant_of(before) = "TypeVar" ->
                        after = IF before[2] \in DOMAIN substitutions
                                THEN substitutions[before[2]]
                                ELSE before
                  [] variant_of(before) = "Array" ->
                        variant_of(after) = "Array" /\ after[3] = before[3]
                  [] variant_of(before) = "Tuple" ->
                        variant_of(after) = "Tuple" /\ Len(after[2]) = Len(before[2])
                  [] variant_of(before) = "Function" ->
                        variant_of(after) = "Function" /\ Len(after[2]) = Len(before[2])
                  [] OTHER -> is_elementary(before) /\ after = before

\* (A[2], B) under {A -> B, B -> C} has become (B[2], C).
C14_Witness ==
    /\ ty_ctl = "substitute_type_vars"
    /\ ty = Tuple(<<Array(TypeVar("A"), Some(2)), TypeVar("B")>>)
    /\ substitutions = ("A" :> TypeVar("B") @@ "B" :> TypeVar("C"))
    /\ ty_out = Tuple(<<Array(TypeVar("B"), Some(2)), TypeVar("C")>>)

\* Place p comes before place q in a traversal from left to right (neither leads
\* to the other).
Before(p, q) ==
    \E i \in 1..Min(Len(p), Len(q)) :
        /\ p[i] < q[i]
        /\ \A j \in 1..(i - 1) : p[j] = q[j]

\* The places of a type that hold a type variable, all of them or those of one name.
VarPlaces(t) == {p \in Places(t) : variant_of(TypeAt(t, p)) = "TypeVar"}

VarPlacesOf(t, name) == {p \in VarPlaces(t) : TypeAt(t, p)[2] = name}

\* C15. contained_type_vars_with_repetitions yields one name per occurrence, from
\* left to right; contained_type_vars yields every name that occurs once, in the
\* order of the first occurrences; is_concrete_type is TRUE exactly when no type
\* variable occurs, and contains_type_var(n) exactly when n occurs.
C15_ContainedTypeVars ==
    /\ ty_ctl = "contained_type_vars_with_repetitions" =>
          /\ Len(ty_out) = Cardinality(VarPlaces(ty))
          /\ \A p \in VarPlaces(ty) :
                ty_out[1 + Cardinality({q \in VarPlaces(ty) : Before(q, p)})]
                    = TypeAt(ty, p)[2]
    /\ ty_ctl = "contained_type_vars" =>
          /\ Range(ty_out) = {TypeAt(ty, p)[2] : p \in VarPlaces(ty)}
          /\ Cardinality(Range(ty_out)) = Len(ty_out)
          /\ \A i, j \in 1..Len(ty_out) :
                i < j => \E p \in VarPlacesOf(ty, ty_out[i]) :
                            \A q \in VarPlacesOf(ty, ty_out[j]) : Before(p, q)
    /\ ty_ctl = "is_concrete_type" => (ty_out <=> VarPlaces(ty) = {})
    /\ ty_ctl = "contains_type_var" => (ty_out <=> VarPlacesOf(ty, ty_name) # {})

\* The type variables of the function B, A -> B are B and then A.
C15_Witness ==
    /\ ty_ctl = "contained_type_vars"
    /\ ty = Function(<<TypeVar("B"), TypeVar("A")>>, TypeVar("B"))
    /\ ty_out = <<"B", "A">>

\* C16. Termination: every chunk after which the loop goes on strictly increases
\* proven_trace (new_rows >= 1), so no iteration starts from the proven_trace and
\* register_values of the iteration before it.
C16_StrictProgress ==
    [][(ctl = "validated" /\ ctl' = "build") =>
          /\ new_rows >= 1
          /\ proven_trace' > proven_trace]_vars

\* The registers of row i of a transposed trace, in REGISTER_NAMES order.
RegistersAt(trace, i) ==
    [k \in 1..Len(REGISTER_NAMES) |-> At(trace[REGISTER_NAMES[k]], i)]

\* C17. Chunk-boundary alignment: in every iteration after the first,
\* proven_trace is the row of the full trace that the last row of the chunk before
\* matched, register_values is that row of the full trace, and the first
\* validated row of a chunk replays the last row of the chunk before it;
\* proven_trace never decreases.
C17_BoundaryAlignment ==
    /\ chunk_index > 0 =>
          /\ chunk_index <= Len(validated)
          /\ LET prev == validated[chunk_index]
             IN  /\ proven_trace = prev.entry + (TraceLen(prev.trace) - prev.start - 1)
                 /\ register_values = RegistersAt(prev.trace, TraceLen(prev.trace) - 1)
          /\ proven_trace < full_trace_length
          /\ register_values = RegistersAt(full_trace, proven_trace)
    /\ \A k \in 2..Len(validated) :
          /\ RegistersAt(validated[k].trace, validated[k].start)
                = RegistersAt(validated[k - 1].trace, TraceLen(validated[k - 1].trace) - 1)
          /\ validated[k].entry >= validated[k - 1].entry
    /\ validated # <<>> => proven_trace >= Last(validated).entry

\* The third iteration starts; each of the two chunks before it proved new rows.
C17_Witness ==
    /\ ctl = "build"
    /\ chunk_index = 2
    /\ Len(validated) = 2
    /\ validated[2].entry > validated[1].entry
    /\ proven_trace > validated[2].entry

\* No entry of the access log lies in the window of the current iteration.
EmptyWindow ==
    \A e \in 1..Len(memory_accesses) :
        \/ memory_accesses[e].idx < proven_trace
        \/ memory_accesses[e].idx >= proven_trace + num_rows

\* The call of line 215 has an outcome: the guard of ExecuteChunk.
ExecutorAnswers ==
    \E dev \in Deviations(execute_ast(program, inputs, bootloader_inputs, num_rows).trace) :
        bootloader_inputs \in DOMAIN deviated => dev = deviated[bootloader_inputs]

\* C18. Empty window: when the access log is empty or none of its entries lies in
\* [proven_trace, proven_trace + num_rows), accessed_pages is empty, the emitted
\* input is the register snapshot, the Merkle root and the count 0 and nothing
\* else, and the chunk is executed on that input.
C18_EmptyWindow ==
    (ctl \in {"execute_chunk", "validate"} /\ EmptyWindow) =>
        /\ accessed_pages = <<>>
        /\ bootloader_inputs = register_values \o root_hash(TreeAfter(chunk_index)) \o <<0>>
        /\ Len(bootloader_inputs) = Len(REGISTER_NAMES) + Len(Digest(0)) + 1
        /\ At(bootloader_inputs, CountAt) = 0
        /\ Last(all_bootloader_inputs) = bootloader_inputs
        /\ ctl = "execute_chunk" =>
              /\ executions = Len(all_bootloader_inputs)
              /\ ExecutorAnswers
        /\ ctl = "validate" =>
              /\ executions = Len(all_bootloader_inputs) + 1
              /\ chunk_len >= 1

\* A chunk has been executed on an input without pages although the log has
\* entries, before the window and after it.
C18_Witness ==
    /\ ctl = "validate"
    /\ EmptyWindow
    /\ \E e \in 1..Len(memory_accesses) : memory_accesses[e].idx < proven_trace
    /\ \E e \in 1..Len(memory_accesses) : memory_accesses[e].idx >= proven_trace + num_rows
    /\ Len(bootloader_inputs) = CountAt + 1

\* The row offsets the loop of lines 236-259 reaches: all up to the first row that
\* makes it panic.
RowsRead(s) ==
    {i \in 0..(chunk_len - s - 1) : \A j \in 0..(i - 1) : row_agrees(s, j)}

\* C19. Index bounds: every row the validation reads exists, in the chunk's trace
\* (start + i) and in the full trace (proven_trace + i); proven_trace is the
\* index of a row of the full trace; num_rows - start - 1 is not negative.
C19_IndexBounds ==
    /\ ChunkCompared =>
          \A i \in RowsRead(start) :
              /\ start + i < chunk_len
              /\ proven_trace + i < full_trace_length
    /\ executions >= 1 => proven_trace <= full_trace_length - 1
    /\ (ctl = "validated" /\ ~ is_final) => new_rows >= 0

\* C20. all_bootloader_inputs is append-only: a step either leaves the list alone
\* or appends the input of the current iteration to it, before the chunk is
\* executed, and then the list has chunk_index + 1 entries; a chunk is executed
\* on the last entry; the returned list has one entry per executed chunk, the
\* k-th starting from the row of the full trace the k-th chunk was compared from.
C20_AppendOnly ==
    [][/\ \/ all_bootloader_inputs' = all_bootloader_inputs
          \/ /\ ctl = "build" /\ ctl' = "execute_chunk"
             /\ Len(all_bootloader_inputs') = Len(all_bootloader_inputs) + 1
             /\ SubSeq(all_bootloader_inputs', 1, Len(all_bootloader_inputs))
                   = all_bootloader_inputs
             /\ Last(all_bootloader_inputs') = bootloader_inputs'
             /\ Len(all_bootloader_inputs') = chunk_index' + 1
             /\ executions' = executions
       /\ executions' = executions + 1 /\ executions >= 1 =>
             /\ Len(all_bootloader_inputs) = executions
             /\ Last(all_bootloader_inputs) = bootloader_inputs
       /\ ctl' = "returned" =>
             /\ Len(all_bootloader_inputs') = executions' - 1
             /\ Len(all_bootloader_inputs') = Len(validated')
             /\ \A k \in 1..Len(validated') :
                   InputRegisters(all_bootloader_inputs'[k])
                      = RegistersAt(full_trace', validated'[k].entry)]_vars

\* The driver returned a list of three inputs, one per chunk.
C20_Witness ==
    /\ ctl = "returned"
    /\ Len(all_bootloader_inputs) = 3
    /\ executions = 4
    /\ all_bootloader_inputs[1] # all_bootloader_inputs[2]
    /\ all_bootloader_inputs[2] # all_bootloader_inputs[3]

\* The artifact of the pipeline the first call of pipeline_factory returns.
FirstArtifact == pil_with_evaluated_fixed_cols(pipeline_factory(1))

\* C21. The fixed columns are evaluated once per call of rust_continuations, by
\* the first pipeline and before the callback is invoked, whatever the number of
\* chunks; every chunk's pipeline is a new one that resumes from that artifact,
\* which stays as it was computed, and holds nothing of another chunk's pipeline.
C21_EvaluatedOnce ==
    /\ rc_ctl = "start" => pil_evaluations = 0 /\ calls = <<>> /\ evaluated_pil = None
    /\ rc_ctl \in {"chunks", "returned"} =>
          /\ pil_evaluations = 1
          /\ evaluated_pil = Some(FirstArtifact)
          /\ factory_calls = 1 + Len(calls)
    /\ \A k \in 1..Len(calls) :
          /\ calls[k].pipeline.pil = Some(FirstArtifact)
          /\ calls[k].pipeline.id = k + 1
          /\ calls[k].pipeline.witness
                = <<<<"main.bootloader_input_value", chunk_inputs[k]>>>>
          /\ [calls[k].pipeline EXCEPT !.name = BaseName, !.witness = <<>>]
                = optimized_pipeline_factory(k + 1, FirstArtifact)

\* Three chunks were run, each on a pipeline of its own, and the fixed columns
\* were evaluated once.
C21_Witness ==
    /\ rc_ctl = "returned"
    /\ pil_evaluations = 1
    /\ Len(calls) = 3
    /\ factory_calls = 4
    /\ chunk_inputs[1] # chunk_inputs[3]

============================================================================
